---- MODULE Spec2Model ----
(***************************************************************************)
(* The wallet's UTXO set (wallet/core/src/utxo.rs): the available          *)
(* sequence `entries`, the index `map`, the reserved map `consumed`, and   *)
(* the selection contexts that read the set and commit their selection.    *)
(***************************************************************************)
EXTENDS Integers, Sequences, FiniteSets, TLC

\* ------------------------------------------------------------------ bounds
\* Longest argument vector handed to insert / extend.
MaxBatch == 1
\* Cap on Len(entries) + |consumed| (the code sets none): insert, extend and
\* commit are not taken beyond it, and recover_consumed_utxos keeps the sum.
MaxLoad == 3
\* Most transactions one send call builds (VirtualTransaction::transactions).
MaxTxs == 2
\* Largest selection_amount handed to select.
MaxTarget == 2
\* select is not called on a context whose cursor has reached MaxCursor.
MaxCursor == 1
\* Most inputs of a transaction handed to adjust_transaction_for_fee.
MaxInputs == 2
\* Most destination outputs of such a transaction.
MaxOutputs == 1
\* Largest minimum_signatures handed to the builder.
MaxSignatures == 2
\* Most extended public keys of a stored account.
MaxKeys == 2
\* Largest window_size handed to scan_utxos.
MaxWindow == 1
\* Largest address index at which the node holds a UTXO of the account.
MaxIndex == 1
\* Width of an amount in the model: the code's amounts are u64, and the model
\* keeps every amount and mass of a transaction it builds far below
\* 2^WordBits / 1000, as they are in the code.
WordBits == 22

\* ------------------------------------------------------- program constants
\* Duration::from_secs(60) of recover_consumed_utxos.
ConsumedTimeoutSecs == 60
\* kaspa_hashes::HASH_SIZE, the bytes of a transaction id or payload hash.
HASH_SIZE == 32
\* kaspa_consensus_core::subnets::SUBNETWORK_ID_SIZE.
SUBNETWORK_ID_SIZE == 20
\* Sompi per 1000 grams of mass.
MINIMUM_RELAY_TRANSACTION_FEE == 1000
\* BIP32_ACCOUNT_MAGIC, 0x42503332, and BIP32_ACCOUNT_VERSION.
BIP32_ACCOUNT_MAGIC == 1112552242
BIP32_ACCOUNT_VERSION == 0
\* 1 byte for OP_DATA_65 + 64 (length of signature) + 1 byte for sig hash type.
SIGNATURE_SIZE == 1 + 64 + 1

\* ------------------------------------------------------------------ inputs
\* The outpoints known to the remote node.
Ids == {1, 2}
\* An outpoint fixes its output, hence its amount.
AmountOf(i) == IF i = 1 THEN 2 ELSE 1
Record(i) == [id |-> i, amount |-> AmountOf(i)]
\* UtxoEntry.address: the account's receive address owns both outpoints.
AddressOf(i) == "addr1"
Records == {Record(i) : i \in Ids}
Batches == UNION {[1 .. n -> Records] : n \in 1 .. MaxBatch}
Targets == 0 .. MaxTarget
Ctxs == {"c1", "c2"}
\* Seconds the clock advances by between two operations.
TickSteps == {ConsumedTimeoutSecs}
\* The clock is read relative to a sliding origin: the code only compares
\* Instant::now() - 60 s with stored instants, so only the ages of the stored
\* instants and whether the reading is below 60 s can be observed. A reading
\* that would pass Horizon is rebased to Horizon; ages are exact up to Horizon.
Horizon == 2 * ConsumedTimeoutSecs

VARIABLES
    entries,    \* Inner.entries : Vec<UtxoEntryReference>
    consumed,   \* Inner.consumed: HashMap<UtxoEntryId, Consumed>
    map,        \* Inner.map     : HashMap<UtxoEntryId, UtxoEntryReference>
    ctx,        \* the UtxoSelectionContexts and the progress of their select call
    now,        \* Instant::now(), seconds
    last,       \* observer: the operation that ran last and what it reported
    send,       \* Account::send: where the call stands
    lock,       \* Inner's Mutex, and the mutation that is under way
    tx,         \* a call into the tx module: its arguments, locals and result
    store,      \* a Bip32 account's Storable on its way to storage and back
    scan        \* Account::scan_utxos: its arguments, the node, and its two scans

vars == <<entries, consumed, map, ctx, now, last, send, lock, tx, store, scan>>

\* ------------------------------------------------------------ pure helpers
RECURSIVE SumAmounts(_)
SumAmounts(s) == IF s = <<>> THEN 0 ELSE Head(s).amount + SumAmounts(Tail(s))

\* UtxoSet::calculate_balance
Balance(es) == SumAmounts(es)

\* PartialEq for UtxoEntryReference: two references are equal when their amounts are.
RefEq(a, b) == a.amount = b.amount

\* Vec::contains, which uses PartialEq.
Contains(s, e) == \E i \in 1 .. Len(s) : RefEq(s[i], e)

IdsOf(s) == {s[i].id : i \in 1 .. Len(s)}
Count(s, i) == Cardinality({k \in 1 .. Len(s) : s[k].id = i})

InsertAt(s, p, e) == SubSeq(s, 1, p - 1) \o <<e>> \o SubSeq(s, p, Len(s))

\* A push to the back in place of the sorted insertion.
SortedInsertPlacesBack(s, e) == {Len(s) + 1}

\* sorted_insert_asc_binary: binary search by Ord (amount). Without an equal
\* element the place is fixed; with equal elements the search may land on any of
\* them, so the new element may go anywhere in or next to their run.
SortedInsertPlaces(s, e) ==
    LET less == Cardinality({k \in 1 .. Len(s) : s[k].amount < e.amount})
        same == Cardinality({k \in 1 .. Len(s) : s[k].amount = e.amount})
    IN  (less + 1) .. (less + same + 1)

SortedInserts(s, e) == {InsertAt(s, p, e) : p \in SortedInsertPlaces(s, e)}

MapPut(m, k, v) == [x \in DOMAIN m \cup {k} |-> IF x = k THEN v ELSE m[x]]
MapDel(m, ks) == [x \in DOMAIN m \ ks |-> m[x]]
EmptyMap == [x \in {} |-> 0]

\* ---------------------------------------------------------------- contexts
\* st: "none" (no such context), "idle" (between calls), "selecting" (inside
\* select). selection_amount, amount and vec are the locals of select; pristine
\* tells, during a select, that the call started at cursor 0 and that entries
\* has not changed since.
NoCtx == [st |-> "none", cursor |-> 0, selected_entries |-> <<>>, selected_amount |-> 0,
          selection_amount |-> 0, amount |-> 0, vec |-> <<>>, pristine |-> FALSE]

\* A mutation of the available sequence disturbs every select call in progress.
Disturbed(cx, es) ==
    [c \in Ctxs |-> IF cx[c].st = "selecting" /\ es # entries
                    THEN [cx[c] EXCEPT !.pristine = FALSE] ELSE cx[c]]

\* No send call is running; committed tells whether the last call reached
\* ctx.commit(), left counts the transactions it has still to sign and submit,
\* accepted the ones submit_transaction has taken (tx_ids.len()).
NoSend == [pc |-> "idle", left |-> 0, committed |-> FALSE, accepted |-> 0]

\* No call of the transaction builder.
NoTx == [pc |-> "none"]

\* No account is being stored or loaded.
NoStore == [pc |-> "none"]

\* No scan of the account's addresses.
NoScan == [pc |-> "none"]

\* No mutation is under way: op names it, phase is "checkpoint" (recover has
\* read the clock), "start" (the guard is taken), "half" (the first of its two
\* writes is done); the other fields are its argument and locals.
NoJob == [op |-> "none", phase |-> "none", b |-> <<>>, ids |-> {}, c |-> "none",
          t0 |-> 0, removed |-> EmptyMap, fresh |-> FALSE]

\* Mutex::new(Inner::new())
NoLock == [held |-> FALSE, job |-> NoJob]

Init ==
    /\ entries = <<>>
    /\ consumed = EmptyMap
    /\ map = EmptyMap
    /\ ctx = [c \in Ctxs |-> NoCtx]
    /\ now = 0
    /\ last = [op |-> "new", res |-> "Ok", n |-> 0]
    /\ send = NoSend
    /\ lock = NoLock
    /\ tx = NoTx
    /\ store = NoStore
    /\ scan = NoScan

\* ----------------------------------------------------------------- UtxoSet
\* UtxoSet::insert without its test of the index: every entry is inserted.
RECURSIVE InsertOutcomesUnchecked(_, _, _)
InsertOutcomesUnchecked(b, m, es) ==
    IF b = <<>> THEN {[map |-> m, entries |-> es]}
    ELSE UNION {InsertOutcomesUnchecked(Tail(b), MapPut(m, Head(b).id, Head(b)), s2)
                : s2 \in SortedInserts(es, Head(b))}

\* The loop of UtxoSet::insert over its argument: every (map, entries) it can
\* end with.
RECURSIVE InsertOutcomes(_, _, _)
InsertOutcomes(b, m, es) ==
    IF b = <<>> THEN {[map |-> m, entries |-> es]}
    ELSE LET e == Head(b) IN
         IF e.id \notin DOMAIN m
         THEN UNION {InsertOutcomes(Tail(b), MapPut(m, e.id, e), s2) : s2 \in SortedInserts(es, e)}
         ELSE InsertOutcomes(Tail(b), m, es)

\* The loop of UtxoSet::extend: map.insert stores the entry in either case and
\* tells by its return value whether the id was new.
RECURSIVE ExtendOutcomes(_, _, _)
ExtendOutcomes(b, m, es) ==
    IF b = <<>> THEN {[map |-> m, entries |-> es]}
    ELSE LET e == Head(b) IN
         IF e.id \notin DOMAIN m
         THEN UNION {ExtendOutcomes(Tail(b), MapPut(m, e.id, e), s2) : s2 \in SortedInserts(es, e)}
         ELSE ExtendOutcomes(Tail(b), MapPut(m, e.id, e), es)

Insert(b) ==
    \E o \in InsertOutcomes(b, map, entries) :
        /\ Len(o.entries) + Cardinality(DOMAIN consumed) <= MaxLoad
        /\ entries' = o.entries
        /\ map' = o.map
        /\ ctx' = Disturbed(ctx, o.entries)
        /\ UNCHANGED <<consumed, now>>

Extend(b) ==
    \E o \in ExtendOutcomes(b, map, entries) :
        /\ Len(o.entries) + Cardinality(DOMAIN consumed) <= MaxLoad
        /\ entries' = o.entries
        /\ map' = o.map
        /\ ctx' = Disturbed(ctx, o.entries)
        /\ UNCHANGED <<consumed, now>>

\* UtxoSet::remove: the ids found in the index; of these, the ones that were not
\* in consumed are taken out of entries.
RemoveEntries(es, cons, removed) ==
    SelectSeq(es, LAMBDA e : ~(e.id \in removed /\ e.id \notin DOMAIN cons))

\* The value remove returns: its last expression is `true`.
RemoveReturns(ids) == TRUE

Remove(ids) ==
    LET removed == ids \cap DOMAIN map
        es == RemoveEntries(entries, consumed, removed)
    IN  /\ map' = MapDel(map, removed)
        /\ consumed' = MapDel(consumed, removed)
        /\ entries' = es
        /\ ctx' = Disturbed(ctx, es)
        /\ UNCHANGED now

\* recover_consumed_utxos with <= for <: a reservation expires at 60 s sharp.
ExpiredAtTimeout(cons, t) == {i \in DOMAIN cons : cons[i].instant <= t - ConsumedTimeoutSecs}

\* The ids recover_consumed_utxos takes out of consumed at clock reading t.
Expired(cons, t) == {i \in DOMAIN cons : cons[i].instant < t - ConsumedTimeoutSecs}

\* The sorted re-insertion of the expired entries, in the order the HashMap
\* yielded them (any order).
RECURSIVE RecoverInserts(_, _, _)
RecoverInserts(S, cons, es) ==
    IF S = {} THEN {es}
    ELSE UNION {UNION {RecoverInserts(S \ {i}, cons, s2) : s2 \in SortedInserts(es, cons[i].entry)}
                : i \in S}

\* checked_sub(60 s) is None while the clock reads less than 60 s, and unwrap
\* then panics, before the set is locked.
RecoverPanics == now < ConsumedTimeoutSecs

\* UtxoSet::recover_consumed_utxos
RecoverConsumedUtxos ==
    IF RecoverPanics
    THEN UNCHANGED <<entries, consumed, map, ctx, now>>
    ELSE LET expired == Expired(consumed, now) IN
         \E es \in RecoverInserts(expired, consumed, entries) :
             /\ consumed' = MapDel(consumed, expired)
             /\ entries' = es
             /\ ctx' = Disturbed(ctx, es)
             /\ UNCHANGED <<map, now>>

\* ---------------------------------------------------- UtxoSelectionContext
\* UtxoSelectionContext::addresses: the owner of each selected entry, in order.
Addresses(sel) == [k \in 1 .. Len(sel) |-> AddressOf(sel[k].id)]

\* UtxoSet::create_selection_context / UtxoSelectionContext::new
CreateSelectionContext(c) ==
    /\ ctx[c].st = "none"
    /\ ctx' = [ctx EXCEPT ![c] = [NoCtx EXCEPT !.st = "idle"]]
    /\ UNCHANGED <<entries, consumed, map, now>>

\* The entry of select: its locals amount and vec.
SelectStart(c, t) ==
    /\ ctx[c].st = "idle"
    /\ ctx[c].cursor < MaxCursor
    \* the reads of two select calls commute: one call at a time is explored
    /\ \A o \in Ctxs : ctx[o].st # "selecting"
    /\ ctx' = [ctx EXCEPT ![c] = [ctx[c] EXCEPT !.st = "selecting", !.selection_amount = t,
                                                 !.amount = 0, !.vec = <<>>,
                                                 !.pristine = (ctx[c].cursor = 0)]]
    /\ UNCHANGED <<entries, consumed, map, now>>

\* The end of select, after its loop: Err(InsufficientFunds), or selected_amount
\* is set and vec returned.
SelectResult(x) == IF x.amount < x.selection_amount THEN "InsufficientFunds" ELSE "Ok"

SelectReturn(x) ==
    IF SelectResult(x) = "Ok"
    THEN [x EXCEPT !.st = "idle", !.selected_amount = x.amount]
    ELSE [x EXCEPT !.st = "idle"]

\* select's loop breaking on amount > selection_amount instead of >=.
PollNextStepStrict(x, es) ==
    IF x.cursor < Len(es)
    THEN LET e == es[x.cursor + 1]
             y == [x EXCEPT !.cursor = @ + 1, !.amount = @ + e.amount,
                            !.selected_entries = Append(@, e), !.vec = Append(@, e)]
         IN  IF y.amount > y.selection_amount THEN SelectReturn(y) ELSE y
    ELSE SelectReturn([x EXCEPT !.cursor = @ + 1])

\* One turn of select's loop. UtxoSetIterator::poll_next locks the set, reads
\* entries.get(cursor) and advances the cursor; Some(entry) is accumulated and
\* the loop breaks once amount >= selection_amount, None ends the loop.
PollNextStep(x, es) ==
    IF x.cursor < Len(es)
    THEN LET e == es[x.cursor + 1]
             y == [x EXCEPT !.cursor = @ + 1, !.amount = @ + e.amount,
                            !.selected_entries = Append(@, e), !.vec = Append(@, e)]
         IN  IF y.amount >= y.selection_amount THEN SelectReturn(y) ELSE y
    ELSE SelectReturn([x EXCEPT !.cursor = @ + 1])

\* The locals of select are gone once it has returned.
Returned(y) ==
    IF y.st = "selecting" THEN y
    ELSE [y EXCEPT !.selection_amount = 0, !.amount = 0, !.vec = <<>>, !.pristine = FALSE]

\* A poll_next that takes the entry it reads out of entries.
SelectPollTaking(c) ==
    /\ ctx[c].st = "selecting"
    /\ ctx' = [ctx EXCEPT ![c] = Returned(PollNextStep(ctx[c], entries))]
    /\ entries' = SelectSeq(entries, LAMBDA e : ctx[c].cursor >= Len(entries)
                                                 \/ e # entries[ctx[c].cursor + 1])
    /\ UNCHANGED <<consumed, map, now>>

SelectPoll(c) ==
    /\ ctx[c].st = "selecting"
    /\ ctx' = [ctx EXCEPT ![c] = Returned(PollNextStep(ctx[c], entries))]
    /\ UNCHANGED <<entries, consumed, map, now>>

\* commit: entries.retain(|entry| selected_entries.contains(entry)).
CommitRetain(es, sel) == SelectSeq(es, LAMBDA e : Contains(sel, e))

\* commit: consumed.insert(entry.id(), (entry, now)) for every selected entry.
RECURSIVE CommitConsume(_, _, _)
CommitConsume(cons, sel, t) ==
    IF sel = <<>> THEN cons
    ELSE CommitConsume(MapPut(cons, Head(sel).id, [entry |-> Head(sel), instant |-> t]),
                       Tail(sel), t)

\* UtxoSelectionContext::commit(self)
Commit(c) ==
    /\ ctx[c].st = "idle"
    /\ LET es == CommitRetain(entries, ctx[c].selected_entries)
           cons == CommitConsume(consumed, ctx[c].selected_entries, now)
       IN
        /\ Len(es) + Cardinality(DOMAIN cons) <= MaxLoad
        /\ entries' = es
        /\ consumed' = cons
        /\ ctx' = [Disturbed(ctx, es) EXCEPT ![c] = NoCtx]
    /\ UNCHANGED <<map, now>>

\* A context dropped without commit.
Discard(c) ==
    /\ ctx[c].st = "idle"
    /\ ctx' = [ctx EXCEPT ![c] = NoCtx]
    /\ UNCHANGED <<entries, consumed, map, now>>

\* ------------------------------------------------------------------- clock
Max0(x) == IF x < 0 THEN 0 ELSE x

\* Time passes. A reading that would pass Horizon moves the origin instead: the
\* reading becomes Horizon and the stored instants move back by the same shift;
\* an instant that would fall before the origin is older than the timeout either
\* way and is kept at the origin.
Tick(d) ==
    /\ IF now + d <= Horizon
       THEN /\ now' = now + d
            /\ UNCHANGED consumed
       ELSE LET shift == now + d - Horizon IN
            /\ now' = Horizon
            /\ consumed' = [i \in DOMAIN consumed |->
                               [consumed[i] EXCEPT !.instant = Max0(@ - shift)]]
    /\ UNCHANGED <<entries, map, ctx, store, scan>>

\* ---------------------------------------------------------------- observer
\* What the operation that ran last was and reported: res is its result (the
\* boolean of remove, "panic" for an unwrap of None), n the
\* number of records it skipped (insert, extend), took out of the index (remove)
\* or returned to entries (recover).
Noted(op, res, n) == last' = [op |-> op, res |-> res, n |-> n]

Skipped(b) == Len(b) - Cardinality(IdsOf(b) \ DOMAIN map)

SelectOutcome(c) ==
    LET y == PollNextStep(ctx[c], entries) IN
    IF y.st = "selecting" THEN "pending" ELSE SelectResult(y)

\* The contexts of the sequential specification.
Solo == {"c1"}

\* The operations below run outside Account::send.
Quiet == UNCHANGED <<send, lock, tx, store, scan>>

\* The operations as the wallet runs them, each with its observation.
DoInsert == \E b \in Batches : Insert(b) /\ Noted("insert", "Ok", Skipped(b)) /\ Quiet
DoExtend == \E b \in Batches : Extend(b) /\ Noted("extend", "Ok", Skipped(b)) /\ Quiet
DoRemove ==
    \E ids \in SUBSET Ids :
        Remove(ids) /\ Noted("remove", IF RemoveReturns(ids) THEN "true" ELSE "false",
                             Cardinality(ids \cap DOMAIN map))
                    /\ Quiet
DoRecover ==
    /\ RecoverConsumedUtxos
    /\ Noted("recover", IF RecoverPanics THEN "panic" ELSE "Ok",
             IF RecoverPanics THEN 0 ELSE Cardinality(Expired(consumed, now)))
    /\ Quiet
DoCreate == \E c \in Solo : CreateSelectionContext(c) /\ Noted("create", "Ok", 0) /\ Quiet
DoSelectStart == \E c \in Solo, t \in Targets : SelectStart(c, t) /\ Noted("select", "pending", 0) /\ Quiet
DoSelectPoll == \E c \in Solo : SelectPoll(c) /\ Noted("select", SelectOutcome(c), 0) /\ Quiet
DoCommit == \E c \in Solo : Commit(c) /\ Noted("commit", "Ok", 0) /\ Quiet
DoDiscard == \E c \in Solo : Discard(c) /\ Noted("discard", "Ok", 0) /\ Quiet
DoTick == \E d \in TickSteps : Tick(d) /\ Noted("tick", "Ok", 0) /\ Quiet

Next ==
    \/ DoInsert
    \/ DoExtend
    \/ DoRemove
    \/ DoRecover
    \/ DoCreate
    \/ DoSelectStart
    \/ DoSelectPoll
    \/ DoCommit
    \/ DoDiscard
    \/ DoTick

Spec == Init /\ [][Next]_vars

\* The caller invokes recover_consumed_utxos periodically and time passes.
LiveSpec == Spec /\ WF_vars(DoTick) /\ WF_vars(DoRecover)

\* ----------------------------------------------------------- Account::send
\* The context of the send call.
SendCtx == "c1"

\* let mut ctx = self.utxos.create_selection_context();
SendCreate ==
    /\ UNCHANGED <<lock, tx, store, scan>>
    /\ send.pc = "idle"
    /\ CreateSelectionContext(SendCtx)
    /\ Noted("create", "Ok", 0)
    /\ send' = [pc |-> "created", left |-> 0, committed |-> FALSE, accepted |-> 0]

\* VirtualTransaction::new(.., &mut ctx, outputs, ..): the selection for the
\* amount of the outputs and fees ...
SendSelectStart(t) ==
    /\ UNCHANGED <<lock, tx, store, scan>>
    /\ send.pc = "created"
    /\ SelectStart(SendCtx, t)
    /\ Noted("select", "pending", 0)
    /\ send' = [send EXCEPT !.pc = "selecting"]

SendSelectPoll ==
    /\ UNCHANGED <<lock, tx, store, scan>>
    /\ send.pc = "selecting"
    /\ SelectPoll(SendCtx)
    /\ Noted("select", SelectOutcome(SendCtx), 0)
    /\ send' = [send EXCEPT !.pc = CASE SelectOutcome(SendCtx) = "pending" -> "selecting"
                                     [] SelectOutcome(SendCtx) = "Ok" -> "selected"
                                     [] OTHER -> "failed"]

\* ... and the transactions built from the selected entries and the outputs: k
\* of them, or an error.
SendBuild(k, ok) ==
    /\ UNCHANGED <<lock, tx, store, scan>>
    /\ send.pc = "selected"
    /\ Noted("build", IF ok THEN "Ok" ELSE "Err", 0)
    /\ send' = IF ok THEN [send EXCEPT !.pc = "built", !.left = k]
                     ELSE [send EXCEPT !.pc = "failed"]
    /\ UNCHANGED <<entries, consumed, map, ctx, now>>

\* sign_mutable_transaction(mtx, private_keys, true)?
SendSign(ok) ==
    /\ UNCHANGED <<lock, tx, store, scan>>
    /\ send.pc = "built"
    /\ Noted("sign", IF ok THEN "Ok" ELSE "Err", 0)
    /\ send' = [send EXCEPT !.pc = IF ok THEN "signed" ELSE "failed"]
    /\ UNCHANGED <<entries, consumed, map, ctx, now>>

\* self.wallet.rpc().submit_transaction(..).await?, then the next transaction.
SendSubmit(ok) ==
    /\ UNCHANGED <<lock, tx, store, scan>>
    /\ send.pc = "signed"
    /\ Noted("submit", IF ok THEN "Ok" ELSE "Err", 0)
    /\ send' = IF ~ok THEN [send EXCEPT !.pc = "failed"]
                ELSE IF send.left > 1
                THEN [send EXCEPT !.pc = "built", !.left = @ - 1, !.accepted = @ + 1]
                ELSE [send EXCEPT !.pc = "submitted", !.left = 0, !.accepted = @ + 1]
    /\ UNCHANGED <<entries, consumed, map, ctx, now>>

\* ctx.commit()?; Ok(tx_ids)
SendCommit ==
    /\ UNCHANGED <<lock, tx, store, scan>>
    /\ send.pc = "submitted"
    /\ Commit(SendCtx)
    /\ Noted("commit", "Ok", 0)
    /\ send' = [pc |-> "idle", left |-> 0, committed |-> TRUE, accepted |-> 0]

\* A `?` returned the error: ctx is dropped where it stands.
SendFail ==
    /\ UNCHANGED <<lock, tx, store, scan>>
    /\ send.pc = "failed"
    /\ Discard(SendCtx)
    /\ Noted("discard", "Ok", 0)
    /\ send' = NoSend

DoSendSelectStart == \E t \in Targets : SendSelectStart(t)
DoSendBuild == \E k \in 1 .. MaxTxs, ok \in BOOLEAN : SendBuild(k, ok)
DoSendSign == \E ok \in BOOLEAN : SendSign(ok)
DoSendSubmit == \E ok \in BOOLEAN : SendSubmit(ok)

\* A send call running while the notification handlers and the recovery sweep
\* work on the set.
NextSend ==
    \/ DoInsert
    \/ DoRemove
    \/ DoRecover
    \/ DoTick
    \/ SendCreate
    \/ DoSendSelectStart
    \/ SendSelectPoll
    \/ DoSendBuild
    \/ DoSendSign
    \/ DoSendSubmit
    \/ SendCommit
    \/ SendFail

SpecSend == Init /\ [][NextSend]_vars

\* ------------------------------------------------------ the critical sections
\* Each mutation of the set step by step: self.inner() takes the guard, the
\* function writes twice, and the guard is dropped when the function returns.
\* The atomic operations above are these steps run without interruption.
Free == ~lock.held /\ lock.job = NoJob

Begin(job) == lock' = [held |-> TRUE, job |-> [job EXCEPT !.phase = "start"]]

Half(job) == lock' = [lock EXCEPT !.job = [job EXCEPT !.phase = "half"]]

\* The guard goes out of scope.
Release == lock' = NoLock

\* What a reader of the set finds: a set between two writes of a mutation, or
\* one that every mutation so far has finished with. Under SpecLock `last` is
\* what the reader that ran last found, and what recover's unwrap reported.
Seen == IF lock.job.phase = "half" THEN "partial" ELSE "whole"

\* insert / extend: let mut inner = self.inner();
LockInsert(op, b) ==
    /\ Free
    /\ Len(entries) + Len(b) + Cardinality(DOMAIN consumed) <= MaxLoad
    /\ Begin([NoJob EXCEPT !.op = op, !.b = b])
    /\ UNCHANGED <<entries, consumed, map, ctx, now, last, send, tx, store, scan>>

\* The first entry's write to the index: insert writes under a Vacant entry,
\* extend's map.insert writes always.
InsertHalf ==
    /\ lock.job.op \in {"insert", "extend"} /\ lock.job.phase = "start"
    /\ LET e == Head(lock.job.b)
           fresh == e.id \notin DOMAIN map
       IN  /\ map' = IF fresh \/ lock.job.op = "extend" THEN MapPut(map, e.id, e) ELSE map
           /\ Half([lock.job EXCEPT !.fresh = fresh])
    /\ UNCHANGED <<entries, consumed, ctx, now, last, send, tx, store, scan>>

\* Its sorted insert into entries, the rest of the argument, and the return.
InsertFinish ==
    /\ lock.job.op \in {"insert", "extend"} /\ lock.job.phase = "half"
    /\ \E es \in (IF lock.job.fresh THEN SortedInserts(entries, Head(lock.job.b)) ELSE {entries}) :
         \E o \in (IF lock.job.op = "insert" THEN InsertOutcomes(Tail(lock.job.b), map, es)
                                           ELSE ExtendOutcomes(Tail(lock.job.b), map, es)) :
            /\ entries' = o.entries
            /\ map' = o.map
            /\ ctx' = Disturbed(ctx, o.entries)
    /\ Release
    /\ UNCHANGED <<consumed, now, last, send, tx, store, scan>>

\* remove: let mut inner = self.inner();
LockRemove(ids) ==
    /\ Free
    /\ Begin([NoJob EXCEPT !.op = "remove", !.ids = ids])
    /\ UNCHANGED <<entries, consumed, map, ctx, now, last, send, tx, store, scan>>

\* The first loop of remove, over the index.
RemoveHalf ==
    /\ lock.job.op = "remove" /\ lock.job.phase = "start"
    /\ map' = MapDel(map, lock.job.ids)
    /\ Half([lock.job EXCEPT !.ids = @ \cap DOMAIN map])
    /\ UNCHANGED <<entries, consumed, ctx, now, last, send, tx, store, scan>>

\* The second loop, over the ids the first one removed.
RemoveFinish ==
    /\ lock.job.op = "remove" /\ lock.job.phase = "half"
    /\ consumed' = MapDel(consumed, lock.job.ids)
    /\ entries' = RemoveEntries(entries, consumed, lock.job.ids)
    /\ ctx' = Disturbed(ctx, entries')
    /\ Release
    /\ UNCHANGED <<map, now, last, send, tx, store, scan>>

\* commit: let mut inner = self.utxos.inner();
LockCommit(c) ==
    /\ Free
    /\ ctx[c].st = "idle"
    /\ Len(entries) + Cardinality(DOMAIN consumed \cup IdsOf(ctx[c].selected_entries)) <= MaxLoad
    /\ Begin([NoJob EXCEPT !.op = "commit", !.c = c])
    /\ UNCHANGED <<entries, consumed, map, ctx, now, last, send, tx, store, scan>>

\* inner.entries.retain(..)
CommitHalf ==
    /\ lock.job.op = "commit" /\ lock.job.phase = "start"
    /\ entries' = CommitRetain(entries, ctx[lock.job.c].selected_entries)
    /\ ctx' = Disturbed(ctx, entries')
    /\ Half(lock.job)
    /\ UNCHANGED <<consumed, map, now, last, send, tx, store, scan>>

\* let now = Instant::now(); the inserts into consumed; Ok(())
CommitFinish ==
    /\ lock.job.op = "commit" /\ lock.job.phase = "half"
    /\ consumed' = CommitConsume(consumed, ctx[lock.job.c].selected_entries, now)
    /\ ctx' = [ctx EXCEPT ![lock.job.c] = NoCtx]
    /\ Release
    /\ UNCHANGED <<entries, map, now, last, send, tx, store, scan>>

\* recover_consumed_utxos reads the clock before it takes the guard.
RecoverCheckpoint ==
    /\ Free
    /\ IF RecoverPanics
       THEN Noted("recover", "panic", 0) /\ UNCHANGED lock
       ELSE /\ lock' = [lock EXCEPT !.job = [NoJob EXCEPT !.op = "recover",
                                                          !.phase = "checkpoint", !.t0 = now]]
            /\ UNCHANGED last
    /\ UNCHANGED <<entries, consumed, map, ctx, now, send, tx, store, scan>>

\* let mut inner = self.inner();
RecoverLock ==
    /\ lock.job.op = "recover" /\ lock.job.phase = "checkpoint" /\ ~lock.held
    /\ Begin(lock.job)
    /\ UNCHANGED <<entries, consumed, map, ctx, now, last, send, tx, store, scan>>

\* recover_consumed_utxos dropping the guard after consumed.retain.
RecoverHalfUnlocked ==
    /\ lock.job.op = "recover" /\ lock.job.phase = "start"
    /\ LET expired == Expired(consumed, lock.job.t0) IN
       /\ consumed' = MapDel(consumed, expired)
       /\ lock' = [held |-> FALSE,
                   job |-> [lock.job EXCEPT !.phase = "half",
                                           !.removed = [i \in expired |-> consumed[i]]]]
    /\ UNCHANGED <<entries, map, ctx, now, last, send, tx, store, scan>>

\* inner.consumed.retain(..), which collects the timed out entries in `removed`.
RecoverHalf ==
    /\ lock.job.op = "recover" /\ lock.job.phase = "start"
    /\ LET expired == Expired(consumed, lock.job.t0) IN
       /\ consumed' = MapDel(consumed, expired)
       /\ Half([lock.job EXCEPT !.removed = [i \in expired |-> consumed[i]]])
    /\ UNCHANGED <<entries, map, ctx, now, last, send, tx, store, scan>>

\* The sorted inserts of `removed` into entries; Ok(())
RecoverFinish ==
    /\ lock.job.op = "recover" /\ lock.job.phase = "half"
    /\ \E es \in RecoverInserts(DOMAIN lock.job.removed, lock.job.removed, entries) :
          /\ entries' = es
          /\ ctx' = Disturbed(ctx, es)
    /\ Release
    /\ UNCHANGED <<consumed, map, now, last, send, tx, store, scan>>

\* calculate_balance: self.inner() for the length of the sum.
ReadBalance ==
    /\ ~lock.held
    /\ Noted("balance", Seen, 0)
    /\ UNCHANGED <<entries, consumed, map, ctx, now, send, lock, tx, store, scan>>

\* poll_next: inner.lock() for the length of entries.get(cursor).
LockedPoll(c) ==
    /\ ~lock.held
    /\ SelectPoll(c)
    /\ Noted("select", IF Seen = "partial" THEN Seen ELSE SelectOutcome(c), 0)
    /\ UNCHANGED <<send, lock, tx, store, scan>>

\* The context operations that take no guard; a context handed to commit is gone.
Unlocked(c) == lock.job.c # c /\ UNCHANGED <<last, send, lock, tx, store, scan>>

\* The clock, read by commit under the guard and by recover before it. The
\* origin does not move between recover's reading and its use of it.
LockedTick(d) ==
    /\ lock.job.op = "recover" => now + d <= Horizon
    /\ Tick(d)
    /\ UNCHANGED <<last, send, lock, tx, store, scan>>

DoLockInsert == \E op \in {"insert", "extend"}, b \in Batches : LockInsert(op, b)
DoLockRemove == \E ids \in SUBSET Ids : LockRemove(ids)
DoLockCommit == \E c \in Solo : LockCommit(c)
DoLockedPoll == \E c \in Solo : LockedPoll(c)
DoLockedTick == \E d \in TickSteps : LockedTick(d)
DoFreeCreate == \E c \in Solo : CreateSelectionContext(c) /\ Unlocked(c)
DoFreeSelectStart == \E c \in Solo, t \in Targets : SelectStart(c, t) /\ Unlocked(c)
DoFreeDiscard == \E c \in Solo : Discard(c) /\ Unlocked(c)

NextLock ==
    \/ DoLockInsert
    \/ InsertHalf
    \/ InsertFinish
    \/ DoLockRemove
    \/ RemoveHalf
    \/ RemoveFinish
    \/ DoLockCommit
    \/ CommitHalf
    \/ CommitFinish
    \/ RecoverCheckpoint
    \/ RecoverLock
    \/ RecoverHalf
    \/ RecoverFinish
    \/ ReadBalance
    \/ DoLockedPoll
    \/ DoLockedTick
    \/ DoFreeCreate
    \/ DoFreeSelectStart
    \/ DoFreeDiscard

SpecLock == Init /\ [][NextLock]_vars

\* ------------------------------------------------------ transaction limits
\* Amounts are unsigned words: one past the largest, and the reduction an
\* arithmetic result undergoes when overflow checks are compiled out.
Modulus == 2 ^ WordBits
U64(x) == x % Modulus
Overflows(x) == x < 0 \/ x >= Modulus

\* u64::checked_mul: the product when it fits the word, None otherwise.
None == -1
CheckedMul(a, b) == IF a = 0 \/ b <= (Modulus - 1) \div a THEN a * b ELSE None

RECURSIVE WrappingMul(_, _)
\* a * b without overflow checks: the product reduced to the word, taken one
\* bit of b at a time.
WrappingMul(a, b) ==
    IF b = 0 THEN 0
    ELSE U64(2 * WrappingMul(a, b \div 2) + (IF b % 2 = 1 THEN a ELSE 0))

\* (a as u128 * k) / (d as u128): the quotient of the wide product, by long
\* division on a = (a / d) * d + a % d.
WideMulDiv(a, k, d) == (a \div d) * k + ((a % d) * k) \div d

\* The maximum supply, a little under a sixth of the range of an amount.
MAX_SOMPI == Modulus \div 6

\* The consensus parameters MassCalculator::new copies (mainnet's).
Params == [mass_per_tx_byte |-> 1, mass_per_script_pub_key_byte |-> 10,
           mass_per_sig_op |-> 1000]

RECURSIVE SumOf(_)
\* iter().sum() over the mapped vector.
SumOf(s) == IF Len(s) = 0 THEN 0 ELSE Head(s) + SumOf(Tail(s))

\* minimum_required_transaction_relay_fee without its test of a zero fee.
MinimumRequiredTransactionRelayFeeUnfloored(mass) ==
    LET minimum_fee == WrappingMul(mass, MINIMUM_RELAY_TRANSACTION_FEE) \div 1000
    IN  IF minimum_fee < MAX_SOMPI THEN minimum_fee ELSE MAX_SOMPI

\* minimum_required_transaction_relay_fee, compiled without overflow checks.
MinimumRequiredTransactionRelayFee(mass) ==
    LET scaled == WrappingMul(mass, MINIMUM_RELAY_TRANSACTION_FEE) \div 1000
        minimum_fee == IF scaled = 0 THEN MINIMUM_RELAY_TRANSACTION_FEE ELSE scaled
    IN  IF minimum_fee < MAX_SOMPI THEN minimum_fee ELSE MAX_SOMPI

OutpointEstimatedSerializedSize == HASH_SIZE + 4

\* transaction_input_serialized_byte_size without the sequence field.
TransactionInputSerializedByteSizeUnsequenced(input) ==
    OutpointEstimatedSerializedSize + 8 + input.signature_script_len

TransactionInputSerializedByteSize(input) ==
    OutpointEstimatedSerializedSize + 8 + input.signature_script_len + 8

TransactionOutputSerializedByteSize(output) == 8 + 2 + 8 + output.script_len

TransactionSerializedByteSize(t) ==
    2 + 8 + SumOf([i \in 1 .. Len(t.inputs) |->
                       TransactionInputSerializedByteSize(t.inputs[i])])
      + 8 + SumOf([i \in 1 .. Len(t.outputs) |->
                       TransactionOutputSerializedByteSize(t.outputs[i])])
      + 8 + SUBNETWORK_ID_SIZE + 8 + HASH_SIZE + 8 + t.payload_len

BlankTransactionSerializedByteSize ==
    2 + 8 + 8 + 8 + SUBNETWORK_ID_SIZE + 8 + HASH_SIZE + 8

\* is_transaction_output_dust with the size of the output alone, without the
\* 148 bytes of the input that redeems it.
IsTransactionOutputDustUnredeemed(output) ==
    IF output.script_len < 33 THEN TRUE
    ELSE LET total_serialized_size == 8 + 2 + 8 + output.script_len
             value_1000 == CheckedMul(output.value, 1000)
         IN  IF value_1000 # None
             THEN value_1000 \div (3 * total_serialized_size)
                      < MINIMUM_RELAY_TRANSACTION_FEE
             ELSE WideMulDiv(output.value, 1000, 3 * total_serialized_size)
                      < MINIMUM_RELAY_TRANSACTION_FEE

\* is_transaction_output_dust with a product that wraps instead of the
\* checked product and its wide fallback.
IsTransactionOutputDustWrapping(output) ==
    IF output.script_len < 33 THEN TRUE
    ELSE WrappingMul(output.value, 1000) \div (3 * (8 + 2 + 8 + output.script_len + 148))
             < MINIMUM_RELAY_TRANSACTION_FEE

\* is_transaction_output_dust: value.checked_mul(1000) is None when the product
\* leaves the word, and then the quotient is taken in the wider type.
IsTransactionOutputDust(output) ==
    IF output.script_len < 33 THEN TRUE
    ELSE LET total_serialized_size == TransactionOutputSerializedByteSize(output) + 148
             value == output.value
             value_1000 == CheckedMul(value, 1000)
         IN  IF value_1000 # None
             THEN value_1000 \div (3 * total_serialized_size)
                      < MINIMUM_RELAY_TRANSACTION_FEE
             ELSE WideMulDiv(value, 1000, 3 * total_serialized_size)
                      < MINIMUM_RELAY_TRANSACTION_FEE

ScriptPublicKeyMassSize(output) == 2 + output.script_len
SigOpCount(input) == input.sig_op_count

CalcSerializedMassForTx(t) == TransactionSerializedByteSize(t) * Params.mass_per_tx_byte
CalcMassForOutputs(outputs) ==
    SumOf([i \in 1 .. Len(outputs) |-> ScriptPublicKeyMassSize(outputs[i])])
        * Params.mass_per_script_pub_key_byte
CalcMassForInputs(inputs) ==
    SumOf([i \in 1 .. Len(inputs) |-> SigOpCount(inputs[i])]) * Params.mass_per_sig_op

CalcMassForTx(t) ==
    CalcSerializedMassForTx(t) + CalcMassForOutputs(t.outputs) + CalcMassForInputs(t.inputs)

\* calc_signature_mass_for_inputs without std::cmp::max(1, minimum_signatures).
CalcSignatureMassForInputsUnfloored(number_of_inputs, minimum_signatures) ==
    SIGNATURE_SIZE * Params.mass_per_tx_byte * minimum_signatures * number_of_inputs

CalcSignatureMassForInputs(number_of_inputs, minimum_signatures) ==
    LET signatures == IF minimum_signatures > 1 THEN minimum_signatures ELSE 1
    IN  SIGNATURE_SIZE * Params.mass_per_tx_byte * signatures * number_of_inputs

CalcMiniumTxRelayFee(t, minimum_signatures) ==
    MinimumRequiredTransactionRelayFee(
        CalcMassForTx(t) + CalcSignatureMassForInputs(Len(t.inputs), minimum_signatures))

\* ------------------------------------------------ adjust_transaction_for_fee
InputAmount(input) == input.amount
OutputValue(output) == output.value
\* mtx.total_input_amount() and mtx.total_output_amount().
TotalInputAmount(t) == SumOf([i \in 1 .. Len(t.inputs) |-> InputAmount(t.inputs[i])])
TotalOutputAmount(t) == SumOf([i \in 1 .. Len(t.outputs) |-> OutputValue(t.outputs[i])])

\* TransactionOutput::new(change, &pay_to_address_script(change_address)).
ChangeOutput(t, value) == [value |-> value, script_len |-> t.change_script_len,
                           to |-> "change"]

\* The value of a requested destination output, and the script lengths of
\* pay_to_address_script for a destination and for the change address.
DestinationValue == 5 * MINIMUM_RELAY_TRANSACTION_FEE
ScriptLen == HASH_SIZE + 2

Destination == [value |-> DestinationValue, script_len |-> ScriptLen, to |-> "destination"]

\* format!(..).into(): the crate's Error made from the message of the failing
\* test. Error and its From<String> are defined outside these files.
IntoError(message) ==
    IF message = "priority fee > amount" THEN "InvalidArgument" ELSE "InsufficientFunds"

\* The arguments of one call and the function's locals before its first
\* statement: n inputs that carry `total` between them, k destination outputs.
Call(n, sig_op_count, k, total, minimum_signatures, priority_fee, overflow_checks) ==
    [pc |-> "call",
     inputs |-> [i \in 1 .. n |->
                    [amount |-> IF i = 1 THEN total - (n - 1) * (total \div n)
                                         ELSE total \div n,
                     sig_op_count |-> sig_op_count,
                     signature_script_len |-> 0]],
     outputs |-> [i \in 1 .. k |-> Destination],
     payload_len |-> 0,
     change_script_len |-> ScriptLen,
     minimum_signatures |-> minimum_signatures,
     priority_fee |-> priority_fee,
     overflow_checks |-> overflow_checks,
     amount_after_priority_fee |-> 0,
     total_output_amount |-> 0,
     change |-> 0,
     change_output_opt |-> FALSE,
     res |-> "none",
     err |-> "none"]

\* The amounts left over the outputs and the priority fee that the calls try:
\* around zero, around the dust limit of the change output, and around the
\* minimum fee of the transaction without (f0) and with (f1) a change output.
ChangeCases(f0, f1) ==
    {-1, 0, 1, 599, 600, f0 - 1, f0, f1 - 1, f1, f1 + 599, f1 + 600}

PriorityFees == {0, 700}

\* The calls of adjust_transaction_for_fee: those create_transaction makes, with
\* priority_fee within the inputs, and direct calls with a priority_fee of one
\* more than the inputs hold.
TxCalls ==
    UNION {
      LET blank == Call(n, s, k, 0, m, 0, FALSE)
          f0 == CalcMiniumTxRelayFee(blank, m)
          f1 == CalcMiniumTxRelayFee(
                    [blank EXCEPT !.outputs = Append(@, ChangeOutput(blank, 0))], m)
          within == {Call(n, s, k, k * DestinationValue + pc[1] + pc[2], m, pc[1], oc) :
                        pc \in {x \in PriorityFees \X ChangeCases(f0, f1) :
                                   k * DestinationValue + x[1] + x[2] >= 0},
                        oc \in BOOLEAN}
          beyond == {Call(n, s, k, k * DestinationValue + f1, m,
                          k * DestinationValue + f1 + 1, oc) : oc \in BOOLEAN}
      IN  within \cup beyond :
      n \in 1 .. MaxInputs, s \in {0, 1}, k \in 0 .. MaxOutputs, m \in 0 .. MaxSignatures}

\* The calls of create_transaction: the inputs are made of the selected
\* entries, and priority_fee is within them, equal to them or beyond them.
CreateCalls ==
    {[c EXCEPT !.pc = "create"] : c \in TxCalls}
    \cup {[c EXCEPT !.pc = "create", !.priority_fee = TotalInputAmount(c)] :
             c \in {x \in TxCalls : x.priority_fee = 0}}

\* create_transaction without its test of priority_fee.
CreateTransactionStepUntested(t) == [t EXCEPT !.pc = "call"]

\* create_transaction, lines 72-110: the inputs and their sum, the test of
\* priority_fee, the outputs and the transaction. Line 111 hands the
\* transaction to adjust_transaction_for_fee and returns its error, if any.
CreateTransactionStep(t) ==
    IF t.priority_fee > TotalInputAmount(t)
    THEN [t EXCEPT !.pc = "done", !.res = "Err",
                   !.err = IntoError("priority fee > amount")]
    ELSE [t EXCEPT !.pc = "call"]

\* Lines 123-143: the amounts, the test of the outputs against what the inputs
\* leave after the priority fee, and the change output.
AdjustChangeStep(t) ==
    LET total_input_amount == TotalInputAmount(t)
        total_output_amount == TotalOutputAmount(t)
        difference == total_input_amount - t.priority_fee
        amount_after_priority_fee == U64(difference)
        change == amount_after_priority_fee - total_output_amount
        change_output == ChangeOutput(t, change)
    IN  IF Overflows(difference) /\ t.overflow_checks
        THEN [t EXCEPT !.pc = "done", !.res = "panic"]
        ELSE IF total_output_amount > amount_after_priority_fee
        THEN [t EXCEPT !.pc = "done", !.res = "Err",
                       !.err = IntoError("total_amount > amount_after_priority_fee"),
                       !.amount_after_priority_fee = amount_after_priority_fee,
                       !.total_output_amount = total_output_amount]
        ELSE IF change > 0 /\ ~IsTransactionOutputDust(change_output)
        THEN [t EXCEPT !.pc = "changed",
                       !.amount_after_priority_fee = amount_after_priority_fee,
                       !.total_output_amount = U64(total_output_amount + change),
                       !.change = change,
                       !.change_output_opt = TRUE,
                       !.outputs = Append(@, change_output)]
        ELSE [t EXCEPT !.pc = "changed",
                       !.amount_after_priority_fee = amount_after_priority_fee,
                       !.total_output_amount = total_output_amount,
                       !.change = change]

\* Lines 145-174: the minimum fee of the transaction as it stands, the fee the
\* transaction pays, and the reduction or removal of the change output. The
\* change output and the transaction are handles on shared values, so the
\* write of line 167 and the pop of line 170 reach the transaction of mtx.
AdjustFeeStep(t) ==
    LET minimum_fee == CalcMiniumTxRelayFee(t, t.minimum_signatures)
        sum == minimum_fee + t.priority_fee
        total_fee == U64(sum)
        remainder == TotalInputAmount(t) - t.total_output_amount
        fee == U64(remainder)
        fee_difference == total_fee - fee
        new_change == t.change - fee_difference
    IN  IF (Overflows(sum) \/ Overflows(remainder)) /\ t.overflow_checks
        THEN [t EXCEPT !.pc = "done", !.res = "panic"]
        ELSE IF fee >= total_fee
        THEN [t EXCEPT !.pc = "done", !.res = "Ok"]
        ELSE IF ~t.change_output_opt \/ t.change < fee_difference
        THEN [t EXCEPT !.pc = "done", !.res = "Err",
                       !.err = IntoError("total_fee > tx fee")]
        ELSE IF IsTransactionOutputDust(ChangeOutput(t, new_change))
        THEN [t EXCEPT !.pc = "done", !.res = "Ok",
                       !.outputs = SubSeq(@, 1, Len(@) - 1)]
        ELSE [t EXCEPT !.pc = "done", !.res = "Ok",
                       !.outputs[Len(t.outputs)].value = new_change]

\* ------------------------------------------------ calls of the pure functions
\* The largest mass, and the largest value, whose product with 1000 fits.
LargestScalable == (Modulus - 1) \div 1000

\* minimum_required_transaction_relay_fee(mass): around zero, around 1000,
\* a transaction's mass, and around the largest mass whose product fits.
RelayFeeCalls ==
    {[pc |-> "relay_fee", fn |-> "relay_fee", mass |-> m, overflow_checks |-> oc,
      res |-> "none", out |-> 0] :
        m \in {0, 1, 999, 1000, 1001, 2036, LargestScalable, LargestScalable + 1,
               2 * LargestScalable},
        oc \in BOOLEAN}

\* Script lengths: none, below and at the 33 bytes of the dust test, the
\* pay-to-pubkey and pay-to-script-hash scripts, and one long enough for an
\* output to be dust although the product of its value with 1000 does not fit.
ScriptLens == {0, 32, 33, ScriptLen, ScriptLen + 1, LargestScalable \div 3}

\* is_transaction_output_dust(output): values around the limits 3 * (size +
\* 148) of these scripts, around the largest value whose product with 1000
\* fits, and the largest amount.
DustCalls ==
    {[pc |-> "dust", fn |-> "dust", output |-> [value |-> v, script_len |-> l, to |-> "any"],
      res |-> "none", out |-> FALSE] :
        v \in {0, 1, 545, 546, 572, 573, 596, 597, 599, 600, 602, 603,
               LargestScalable, LargestScalable + 1, LargestScalable + 600,
               Modulus \div 2, Modulus - 1},
        l \in ScriptLens}

\* A transaction of n inputs and k outputs for the size and mass functions.
Shape(n, k, signature_script_len, sig_op_count, script_len, payload_len) ==
    [inputs |-> [i \in 1 .. n |-> [amount |-> DestinationValue,
                                   sig_op_count |-> sig_op_count,
                                   signature_script_len |-> signature_script_len]],
     outputs |-> [i \in 1 .. k |-> [value |-> DestinationValue,
                                    script_len |-> script_len + (i - 1),
                                    to |-> "destination"]],
     payload_len |-> payload_len]

Shapes ==
    {Shape(n, k, sl, so, l, pl) :
        n \in 0 .. MaxInputs, k \in 0 .. MaxOutputs, sl \in {0, SIGNATURE_SIZE},
        so \in {0, 1}, l \in {ScriptLen}, pl \in {0, 3}}

\* transaction_serialized_byte_size(tx).
SizeCalls == {[pc |-> "size", fn |-> "size", t |-> t, res |-> "none", out |-> 0] : t \in Shapes}

\* MassCalculator::calc_minium_tx_relay_fee(tx, minimum_signatures).
MinimumFeeCalls ==
    {[pc |-> "minimum_fee", fn |-> "minimum_fee", t |-> t, minimum_signatures |-> m,
      res |-> "none", out |-> 0] :
        t \in Shapes, m \in 0 .. MaxSignatures}

\* The function fn has returned to its caller.
Answered(fn) == tx.pc = "returned" /\ tx.fn = fn

PureCalls == RelayFeeCalls \cup DustCalls \cup SizeCalls \cup MinimumFeeCalls

Still == UNCHANGED <<entries, consumed, map, ctx, now, last, send, lock, store, scan>>

CreateTransaction ==
    /\ tx.pc = "create"
    /\ tx' = CreateTransactionStep(tx)
    /\ Still

AdjustChange ==
    /\ tx.pc = "call"
    /\ tx' = AdjustChangeStep(tx)
    /\ Still

AdjustFee ==
    /\ tx.pc = "changed"
    /\ tx' = AdjustFeeStep(tx)
    /\ Still

\* mass * MINIMUM_RELAY_TRANSACTION_FEE aborts the call when overflow checks are
\* compiled in and the product leaves the word.
RelayFee ==
    /\ tx.pc = "relay_fee"
    /\ tx' = IF tx.overflow_checks
                /\ CheckedMul(tx.mass, MINIMUM_RELAY_TRANSACTION_FEE) = None
             THEN [tx EXCEPT !.pc = "returned", !.res = "panic"]
             ELSE [tx EXCEPT !.pc = "returned", !.res = "Ok",
                             !.out = MinimumRequiredTransactionRelayFee(tx.mass)]
    /\ Still

Dust ==
    /\ tx.pc = "dust"
    /\ tx' = [tx EXCEPT !.pc = "returned", !.res = "Ok",
                        !.out = IsTransactionOutputDust(tx.output)]
    /\ Still

Size ==
    /\ tx.pc = "size"
    /\ tx' = [tx EXCEPT !.pc = "returned", !.res = "Ok",
                        !.out = TransactionSerializedByteSize(tx.t)]
    /\ Still

MinimumFee ==
    /\ tx.pc = "minimum_fee"
    /\ tx' = [tx EXCEPT !.pc = "returned", !.res = "Ok",
                        !.out = CalcMiniumTxRelayFee(tx.t, tx.minimum_signatures)]
    /\ Still

InitTx ==
    /\ entries = <<>>
    /\ consumed = EmptyMap
    /\ map = EmptyMap
    /\ ctx = [c \in Ctxs |-> NoCtx]
    /\ now = 0
    /\ last = [op |-> "new", res |-> "Ok", n |-> 0]
    /\ send = NoSend
    /\ lock = NoLock
    /\ tx \in TxCalls \cup CreateCalls \cup PureCalls
    /\ store = NoStore
    /\ scan = NoScan

NextTx ==
    \/ CreateTransaction \/ AdjustChange \/ AdjustFee
    \/ RelayFee \/ Dust \/ Size \/ MinimumFee

SpecTx == InitTx /\ [][NextTx]_vars

\* ------------------------------------------------------- account storage
\* The extended public keys an account may hold, by name.
Xpubs == {1, 2}

RECURSIVE LeBytes(_, _)
\* Borsh writes an integer as its n bytes, least significant first.
LeBytes(x, n) == IF n = 0 THEN <<>> ELSE <<x % 256>> \o LeBytes(x \div 256, n - 1)

RECURSIVE FromLe(_)
FromLe(bytes) == IF Len(bytes) = 0 THEN 0 ELSE Head(bytes) + 256 * FromLe(Tail(bytes))

RECURSIVE Flatten(_)
Flatten(ss) == IF Len(ss) = 0 THEN <<>> ELSE Head(ss) \o Flatten(Tail(ss))

\* The Borsh bytes of an extended public key: a block of fixed width, here one
\* byte that names the key.
XpubBytes(k) == <<k>>

\* StorageHeader::new(magic, version).serialize(writer).
StorageHeaderBytes(magic, version) == LeBytes(magic, 4) \o LeBytes(version, 4)

\* The bytes BorshSerialize for Storable writes under a header.
BorshStorableUnder(magic, version, s) ==
    StorageHeaderBytes(magic, version)
    \o LeBytes(Len(s.xpub_keys), 4)
    \o Flatten([i \in 1 .. Len(s.xpub_keys) |-> XpubBytes(s.xpub_keys[i])])
    \o LeBytes(s.account_index, 8)
    \o <<IF s.ecdsa THEN 1 ELSE 0>>

\* BorshSerialize for Storable.
BorshStorable(s) == BorshStorableUnder(BIP32_ACCOUNT_MAGIC, BIP32_ACCOUNT_VERSION, s)

RECURSIVE Digits(_)
\* The decimal digits of a number, in ASCII.
Digits(n) == IF n < 10 THEN <<48 + n>> ELSE Digits(n \div 10) \o <<48 + (n % 10)>>

\* An extended public key in JSON: a quoted string.
XpubJson(k) == <<34, 75, 48 + k, 34>>

RECURSIVE Joined(_)
\* The elements of a JSON array, with commas between them.
Joined(ss) == IF Len(ss) = 0 THEN <<>>
              ELSE IF Len(ss) = 1 THEN Head(ss)
              ELSE Head(ss) \o <<44>> \o Joined(Tail(ss))

\* serde_json::to_string(&storable).as_bytes(): the text
\* {"xpub_keys":[..],"account_index":n,"ecdsa":b} in ASCII.
JsonStorable(s) ==
    <<123, 34, 120, 112, 117, 98, 95, 107, 101, 121, 115, 34, 58, 91>>
    \o Joined([i \in 1 .. Len(s.xpub_keys) |-> XpubJson(s.xpub_keys[i])])
    \o <<93, 44, 34, 97, 99, 99, 111, 117, 110, 116, 95, 105, 110, 100, 101, 120, 34, 58>>
    \o Digits(s.account_index)
    \o <<44, 34, 101, 99, 100, 115, 97, 34, 58>>
    \o (IF s.ecdsa THEN <<116, 114, 117, 101>> ELSE <<102, 97, 108, 115, 101>>)
    \o <<125>>

\* Storable::try_load: try_from_slice runs BorshDeserialize for Storable, which
\* reads the header, tests its magic and its version, then reads the keys, the
\* index and the flag, and fails unless that takes all the bytes.
TryLoad(bytes) ==
    IF Len(bytes) < 8 THEN [res |-> "Err", storable |-> "io"]
    ELSE IF FromLe(SubSeq(bytes, 1, 4)) # BIP32_ACCOUNT_MAGIC
    THEN [res |-> "Err", storable |-> "magic"]
    ELSE IF FromLe(SubSeq(bytes, 5, 8)) # BIP32_ACCOUNT_VERSION
    THEN [res |-> "Err", storable |-> "version"]
    ELSE IF Len(bytes) < 12 THEN [res |-> "Err", storable |-> "io"]
    ELSE LET n == FromLe(SubSeq(bytes, 9, 12))
             keys == [i \in 1 .. n |-> bytes[12 + i]]
             flag == bytes[Len(bytes)]
         IN  IF Len(bytes) # 12 + n + 8 + 1 \/ flag \notin {0, 1}
             THEN [res |-> "Err", storable |-> "io"]
             ELSE [res |-> "Ok",
                   storable |-> [xpub_keys |-> keys,
                                 account_index |-> FromLe(SubSeq(bytes, 12 + n + 1, 12 + n + 8)),
                                 ecdsa |-> flag = 1]]

\* Storable::new(account_index, xpub_keys, ecdsa), of a Bip32 account.
Storables ==
    {[xpub_keys |-> k, account_index |-> a, ecdsa |-> e] :
        k \in UNION {[1 .. n -> Xpubs] : n \in 0 .. MaxKeys},
        a \in {0, 1, 258},
        e \in BOOLEAN}

Stores ==
    {[pc |-> "account", storable |-> s, via |-> "none", bytes |-> <<>>, out |-> NoStore] :
        s \in Storables}

Shelved == UNCHANGED <<entries, consumed, map, ctx, now, last, send, lock, tx, scan>>

\* Bip32::to_storage: the account's Storable goes to AccountStorage.serialized
\* as the bytes of its JSON text.
ToStorage ==
    /\ store.pc = "account"
    /\ store' = [store EXCEPT !.pc = "stored", !.via = "to_storage",
                              !.bytes = JsonStorable(store.storable)]
    /\ Shelved

\* test_storage_bip32: StorageGuard::new(&storable_in) stores the Borsh bytes.
GuardNew ==
    /\ store.pc = "account"
    /\ store' = [store EXCEPT !.pc = "stored", !.via = "guard",
                              !.bytes = BorshStorable(store.storable)]
    /\ Shelved

\* Bytes written under another magic or another version.
ForeignWrite ==
    /\ store.pc = "account"
    /\ \E h \in {<<BIP32_ACCOUNT_MAGIC + 1, BIP32_ACCOUNT_VERSION>>,
                 <<BIP32_ACCOUNT_MAGIC, BIP32_ACCOUNT_VERSION + 1>>} :
          store' = [store EXCEPT !.pc = "stored", !.via = "foreign",
                                 !.bytes = BorshStorableUnder(h[1], h[2], store.storable)]
    /\ Shelved

\* Bip32::try_load, Storable::try_load(storage).
Load ==
    /\ store.pc = "stored"
    /\ store' = [store EXCEPT !.pc = "loaded", !.out = TryLoad(store.bytes)]
    /\ Shelved

InitStore ==
    /\ entries = <<>>
    /\ consumed = EmptyMap
    /\ map = EmptyMap
    /\ ctx = [c \in Ctxs |-> NoCtx]
    /\ now = 0
    /\ last = [op |-> "new", res |-> "Ok", n |-> 0]
    /\ send = NoSend
    /\ lock = NoLock
    /\ tx = NoTx
    /\ store \in Stores
    /\ scan = NoScan

NextStore == ToStorage \/ GuardNew \/ ForeignWrite \/ Load

SpecStore == InitStore /\ [][NextStore]_vars

\* ------------------------------------------------------ Account::scan_utxos
\* The account's two address managers.
Managers == {"receive", "change"}

\* The manager whose address owns an outpoint.
ManagerOf(i) == IF i = 1 THEN "receive" ELSE "change"

\* ScanExtent
Extents ==
    {[kind |-> "EmptyWindow", depth |-> 0]}
    \cup {[kind |-> "Depth", depth |-> d] : d \in 0 .. MaxIndex}

\* A scan_address_manager call that has not been polled yet.
NoLoop == [pc |-> "none", cursor |-> 0, first |-> 0, last |-> 0, last_address_index |-> 0]

\* The account before its first scan: holds is the set of outpoints the node
\* holds, place the address index of each outpoint, index the index of each
\* address manager, subscribed the number of addresses of each manager that
\* subscribe_utxos_changed has been called for; cached is Account::balance, -1
\* for None.
Scans ==
    {[pc |-> "idle", window_size |-> w, extent |-> x, holds |-> h, place |-> p,
      index |-> [k \in Managers |-> 0], subscribed |-> [k \in Managers |-> 0],
      balance |-> 0, cached |-> -1, loop |-> [k \in Managers |-> NoLoop]] :
        w \in 0 .. MaxWindow, x \in Extents, h \in SUBSET Ids, p \in [Ids -> 0 .. MaxIndex]}

Larger(a, b) == IF a >= b THEN a ELSE b

RECURSIVE InIdOrder(_)
\* The records of a set of outpoints, as a vector.
InIdOrder(S) ==
    IF S = {} THEN <<>>
    ELSE LET i == CHOOSE x \in S : \A y \in S : x <= y
         IN  <<Record(i)>> \o InIdOrder(S \ {i})

\* get_utxos_by_addresses(addresses) for the addresses first..last of a
\* manager: the outpoints the node holds at them.
GetUtxosByAddresses(k, first, end) ==
    InIdOrder({i \in scan.holds : ManagerOf(i) = k /\ first <= scan.place[i]
                                                   /\ scan.place[i] < end})

RECURSIVE HighestIndex(_, _)
\* The loop over refs that raises last_address_index.
HighestIndex(refs, last_address_index) ==
    IF refs = <<>> THEN last_address_index
    ELSE HighestIndex(Tail(refs), Larger(last_address_index, scan.place[Head(refs).id]))

\* The operations below touch nothing but the set and the scan.
Scanning == UNCHANGED <<last, send, lock, tx, store>>

\* scan_utxos up to join_all: the set is cleared, the shared balance starts at
\* 0, and each scan_address_manager starts with cursor 0 and last_address_index
\* the larger of its manager's index and window_size.
ScanUtxos ==
    /\ scan.pc \in {"idle", "complete"}
    /\ entries' = <<>>
    /\ map' = EmptyMap
    /\ consumed' = EmptyMap
    /\ scan' = [scan EXCEPT !.pc = "scanning", !.balance = 0,
                            !.loop = [k \in Managers |->
                                         [pc |-> "range", cursor |-> 0, first |-> 0, last |-> 0,
                                          last_address_index |->
                                              Larger(scan.index[k], scan.window_size)]]]
    /\ UNCHANGED <<ctx, now>>
    /\ Scanning

\* The head of the scan loop, lines 333-336: the window first..last, and the
\* cursor moved to its end.
ScanWindow(l, window_size) ==
    LET end == IF l.cursor = 0 THEN l.last_address_index ELSE l.cursor + window_size
    IN  [l EXCEPT !.pc = "fetch", !.first = l.cursor, !.last = end, !.cursor = end]

\* Lines 333-342: the window, its addresses and their subscription.
ScanRange(k) ==
    /\ scan.pc = "scanning"
    /\ scan.loop[k].pc = "range"
    /\ LET l == ScanWindow(scan.loop[k], scan.window_size) IN
       scan' = [scan EXCEPT !.loop[k] = l,
                            !.subscribed[k] = Larger(@, l.last)]
    /\ UNCHANGED <<entries, consumed, map, ctx, now>>
    /\ Scanning

\* The test that ends the loop after a window without balance.
ScanEnds(cursor, last_address_index) ==
    IF scan.extent.kind = "EmptyWindow"
    THEN cursor > last_address_index + scan.window_size
    ELSE cursor > scan.extent.depth

\* Lines 343-385: the node's answer, last_address_index, extend, the balance
\* increment or the test of the extent, and set_index once the loop is left.
ScanFetch(k) ==
    /\ scan.pc = "scanning"
    /\ scan.loop[k].pc = "fetch"
    /\ LET l == scan.loop[k]
           refs == GetUtxosByAddresses(k, l.first, l.last)
           last_address_index == HighestIndex(refs, l.last_address_index)
           balance == SumAmounts(refs)
           ends == balance = 0 /\ ScanEnds(l.cursor, last_address_index)
       IN  /\ Extend(refs)
           /\ scan' = [scan EXCEPT
                          !.balance = @ + balance,
                          !.loop[k] = [l EXCEPT !.pc = IF ends THEN "done" ELSE "range",
                                                !.last_address_index = last_address_index],
                          !.index[k] = IF ends THEN last_address_index ELSE @]
    /\ Scanning

\* Lines 407-413: both scans have returned, and the shared balance becomes the
\* account's balance.
ScanComplete ==
    /\ scan.pc = "scanning"
    /\ \A k \in Managers : scan.loop[k].pc = "done"
    /\ scan' = [scan EXCEPT !.pc = "complete", !.cached = scan.balance,
                            !.loop = [k \in Managers |-> NoLoop]]
    /\ UNCHANGED <<entries, consumed, map, ctx, now>>
    /\ Scanning

\* The addresses of the outpoint are subscribed.
Subscribed(i) == scan.place[i] < scan.subscribed[ManagerOf(i)]

\* The node receives a UTXO at a subscribed address and notifies the wallet:
\* handle_utxo_added.
HandleUtxoAdded(i) ==
    /\ scan.pc \in {"scanning", "complete"}
    /\ i \notin scan.holds /\ Subscribed(i)
    /\ Insert(<<Record(i)>>)
    /\ scan' = [scan EXCEPT !.holds = @ \cup {i}]
    /\ Scanning

\* A UTXO at a subscribed address is spent: handle_utxo_removed.
HandleUtxoRemoved(i) ==
    /\ scan.pc \in {"scanning", "complete"}
    /\ i \in scan.holds /\ Subscribed(i)
    /\ Remove({i})
    /\ scan' = [scan EXCEPT !.holds = @ \ {i}]
    /\ Scanning

DoScanRange == \E k \in Managers : ScanRange(k)
DoScanFetch == \E k \in Managers : ScanFetch(k)
DoHandleUtxoAdded == \E i \in Ids : HandleUtxoAdded(i)
DoHandleUtxoRemoved == \E i \in Ids : HandleUtxoRemoved(i)

InitScan ==
    /\ entries = <<>>
    /\ consumed = EmptyMap
    /\ map = EmptyMap
    /\ ctx = [c \in Ctxs |-> NoCtx]
    /\ now = 0
    /\ last = [op |-> "new", res |-> "Ok", n |-> 0]
    /\ send = NoSend
    /\ lock = NoLock
    /\ tx = NoTx
    /\ store = NoStore
    /\ scan \in Scans

NextScan ==
    \/ ScanUtxos
    \/ DoScanRange
    \/ DoScanFetch
    \/ ScanComplete
    \/ DoHandleUtxoAdded
    \/ DoHandleUtxoRemoved

SpecScan == InitScan /\ [][NextScan]_vars

\* Every request returns, each scan is polled until it is done, and so is
\* scan_utxos.
LiveSpecScan ==
    /\ SpecScan
    /\ \A k \in Managers : WF_vars(ScanRange(k)) /\ WF_vars(ScanFetch(k))
    /\ WF_vars(ScanComplete)

\* ------------------------------------------------------------------ claims
InEntries(i) == i \in IdsOf(entries)
InConsumed(i) == i \in DOMAIN consumed

\* C1: every id present in the index is in exactly one of the available sequence
\* and the reserved map, never in both and never in neither.
C1_IndexedInExactlyOnePool ==
    \A i \in DOMAIN map : InEntries(i) # InConsumed(i)

\* C2: balance() is the sum of the amounts of the available records, and no
\* record that is in the reserved map contributes to it.
C2_BalanceExcludesReserved ==
    Balance(entries) = SumAmounts(SelectSeq(entries, LAMBDA e : ~InConsumed(e.id)))

\* A context all of whose select calls succeeded, with something selected.
SelectSucceeded(x) ==
    x.selected_entries # <<>> /\ x.selected_amount = SumAmounts(x.selected_entries)

\* C3: after commit() of a context whose select succeeded, every selected record
\* is absent from the available sequence and is in the reserved map with the
\* commit time as its reservation time, and the balance has lost its amount.
C3_CommitMovesSelected ==
    [][\A c \in Ctxs :
          (last'.op = "commit" /\ ctx[c].st = "idle" /\ ctx'[c].st = "none"
             /\ SelectSucceeded(ctx[c]))
          => /\ \A k \in 1 .. Len(ctx[c].selected_entries) :
                  LET e == ctx[c].selected_entries[k] IN
                  /\ e.id \notin IdsOf(entries')
                  /\ e.id \in DOMAIN consumed'
                  /\ consumed'[e.id] = [entry |-> e, instant |-> now']
             /\ Balance(entries') <= Balance(entries)
                                     - SumAmounts(SelectSeq(ctx[c].selected_entries,
                                           LAMBDA e : e.id \in IdsOf(entries)))]_vars

\* C4: select does not return a record that is in the reserved map: the record a
\* select call reads in the step on which it returns Ok is not reserved.
C4_ReservedNeverSelected ==
    [][\A c \in Ctxs :
          (last'.op = "select" /\ last'.res = "Ok" /\ ctx[c].st = "selecting"
             /\ ctx[c].cursor < Len(entries))
          => ~InConsumed(entries[ctx[c].cursor + 1].id)]_vars

\* The reservations older than the timeout at the clock reading `now`.
OlderThanTimeout == {i \in DOMAIN consumed : now - consumed[i].instant > ConsumedTimeoutSecs}

RECURSIVE SumOver(_)
SumOver(S) == IF S = {} THEN 0
              ELSE LET i == CHOOSE x \in S : TRUE IN consumed[i].entry.amount + SumOver(S \ {i})

\* C5: recover_consumed_utxos returns to entries (and to the balance) exactly
\* the reserved records whose reservation is older than 60 seconds and leaves
\* the other reservations as they are; with no such reservation it changes
\* nothing.
C5_RecoverExactlyExpired ==
    [][last'.op = "recover"
       => /\ DOMAIN consumed' = DOMAIN consumed \ OlderThanTimeout
          /\ \A i \in DOMAIN consumed' : consumed'[i] = consumed[i]
          /\ \A i \in Ids : Count(entries', i)
                               = Count(entries, i) + (IF i \in OlderThanTimeout THEN 1 ELSE 0)
          /\ Balance(entries') = Balance(entries) + SumOver(OlderThanTimeout)
          /\ map' = map
          /\ OlderThanTimeout = {} => (entries' = entries /\ consumed' = consumed)]_vars

\* A recover that returned a record and left a younger reservation in place.
C5_Witness ==
    /\ last.op = "recover" /\ last.res = "Ok" /\ last.n >= 1
    /\ \E i \in DOMAIN consumed : now - consumed[i].instant = ConsumedTimeoutSecs
    /\ \E i \in Ids : i \notin DOMAIN consumed /\ i \in IdsOf(entries)

\* C6: with recover_consumed_utxos invoked again and again while time advances,
\* every reserved record eventually leaves the reserved map.
C6_ReservedEventuallyRecovered ==
    \A i \in Ids : (i \in DOMAIN consumed) ~> (i \notin DOMAIN consumed)

\* C7: insert and extend leave every already indexed id alone: its number of
\* occurrences in entries and the reserved map do not change, and a call that
\* indexes no new id leaves entries and the balance as they were.
C7_DuplicateInsertIsNoOp ==
    [][last'.op \in {"insert", "extend"}
       => /\ consumed' = consumed
          /\ \A i \in DOMAIN map : Count(entries', i) = Count(entries, i)
          /\ DOMAIN map' = DOMAIN map
                => (entries' = entries /\ Len(entries') = Len(entries)
                    /\ Balance(entries') = Balance(entries))]_vars

\* An insert or extend that skipped a record while every indexed id is reserved.
C7_Witness ==
    /\ last.op \in {"insert", "extend"} /\ last.n >= 1
    /\ DOMAIN map # {} /\ DOMAIN map \subseteq DOMAIN consumed
    /\ entries # <<>>

PrefixSum(es, k) == SumAmounts(SubSeq(es, 1, k))

\* The length of the shortest prefix of es whose amounts sum to at least t.
ShortestPrefix(es, t) ==
    CHOOSE k \in 0 .. Len(es) :
        PrefixSum(es, k) >= t /\ \A j \in 0 .. k - 1 : PrefixSum(es, j) < t

\* The same among the prefixes that hold a record, if es has any.
ShortestNonEmptyPrefix(es, t) ==
    IF es = <<>> THEN 0
    ELSE CHOOSE k \in 1 .. Len(es) :
             PrefixSum(es, k) >= t /\ \A j \in 1 .. k - 1 : PrefixSum(es, j) < t

\* The step on which the select call of c returns, the call having started on
\* a fresh context and entries not having changed during it.
PristineReturn(c) ==
    /\ last'.op = "select" /\ last'.res # "pending"
    /\ ctx[c].st = "selecting" /\ ctx[c].pristine

SelectedPrefix(c, k) ==
    /\ last'.res = "Ok"
    /\ ctx'[c].selected_entries = SubSeq(entries, 1, k)
    /\ ctx'[c].selected_amount = PrefixSum(entries, k)

\* C8 as stated: select(target) on a fresh context over an unchanging set selects
\* the shortest prefix of entries summing to at least target, and fails with
\* InsufficientFunds exactly when all of entries sums to less than target.
C8_SelectShortestPrefix ==
    [][\A c \in Ctxs :
          PristineReturn(c)
          => IF SumAmounts(entries) < ctx[c].selection_amount
             THEN last'.res = "InsufficientFunds"
             ELSE SelectedPrefix(c, ShortestPrefix(entries, ctx[c].selection_amount))]_vars

\* C8 amended: the prefix is the shortest one that holds at least one record
\* (select reads a record before it compares), empty only when entries is.
C8_SelectShortestNonEmptyPrefix ==
    [][\A c \in Ctxs :
          PristineReturn(c)
          => IF SumAmounts(entries) < ctx[c].selection_amount
             THEN last'.res = "InsufficientFunds"
             ELSE SelectedPrefix(c, ShortestNonEmptyPrefix(entries, ctx[c].selection_amount))]_vars

\* A select that returned Ok with a proper prefix of entries.
C8_Witness ==
    /\ last.op = "select" /\ last.res = "Ok"
    /\ \E c \in Ctxs :
          /\ ctx[c].selected_entries # <<>>
          /\ Len(ctx[c].selected_entries) < Len(entries)
          /\ ctx[c].cursor = Len(ctx[c].selected_entries)
          /\ ctx[c].selected_entries = SubSeq(entries, 1, ctx[c].cursor)

\* C9: creating a context, select (whatever it returns) and discarding a
\* context leave the index, the available sequence, the reserved map and the
\* balance unchanged.
C9_SelectAndDiscardLeaveSet ==
    [][last'.op \in {"create", "select", "discard"}
       => /\ entries' = entries
          /\ consumed' = consumed
          /\ map' = map
          /\ Balance(entries') = Balance(entries)]_vars

\* A select that failed after reading the records of a non-empty set.
C9_Witness ==
    /\ last.op = "select" /\ last.res = "InsufficientFunds"
    /\ entries # <<>>
    /\ \E c \in Ctxs : ctx[c].selected_entries = entries

\* C10: when select fails with InsufficientFunds, selected_entries holds none
\* of the records the failed call read: it is what it was when the call began.
C10_FailedSelectKeepsNothing ==
    [][\A c \in Ctxs :
          (last'.op = "select" /\ last'.res = "InsufficientFunds" /\ ctx[c].st = "selecting")
          => ctx'[c].selected_entries
               = SubSeq(ctx[c].selected_entries, 1,
                        Len(ctx[c].selected_entries) - Len(ctx[c].vec))]_vars

\* The step on which context c is committed.
Commits(c) == last'.op = "commit" /\ ctx[c].st = "idle" /\ ctx'[c].st = "none"

\* C11: commit skips a selected record that is no longer in the available
\* sequence when commit runs: it is not put into the reserved map, and a
\* reservation it already has keeps its time.
C11_CommitSkipsMissing ==
    [][\A c \in Ctxs :
          Commits(c)
          => \A k \in 1 .. Len(ctx[c].selected_entries) :
                LET e == ctx[c].selected_entries[k] IN
                e.id \notin IdsOf(entries)
                => IF e.id \in DOMAIN consumed
                   THEN e.id \in DOMAIN consumed' /\ consumed'[e.id] = consumed[e.id]
                   ELSE e.id \notin DOMAIN consumed']_vars

\* C13: after remove(ids), every listed id that was indexed is absent from the
\* index, from the available sequence and from the reserved map; the records of
\* the other ids stay where they were.
C13_RemovedEverywhere ==
    [][last'.op = "remove"
       => \E ids \in SUBSET Ids :
             /\ DOMAIN map' = DOMAIN map \ ids
             /\ \A i \in ids \cap DOMAIN map :
                   i \notin IdsOf(entries') /\ i \notin DOMAIN consumed'
             /\ \A i \in Ids \ ids :
                   /\ Count(entries', i) = Count(entries, i)
                   /\ (i \in DOMAIN consumed') = (i \in DOMAIN consumed)
                   /\ i \in DOMAIN consumed => consumed'[i] = consumed[i]]_vars

\* C14: remove(ids) returns true when at least one listed id was indexed (and is
\* removed), false when none was.
C14_RemoveTellsWhetherRemoved ==
    [][last'.op = "remove" => (last'.res = "true") = (last'.n >= 1)]_vars

\* C15: recover_consumed_utxos returns success whenever it is called, at every
\* clock reading and also with nothing reserved.
C15_RecoverNeverAborts ==
    [][last'.op = "recover" => last'.res = "Ok"]_vars

NoDuplicates(s) == \A j, k \in 1 .. Len(s) : s[j] = s[k] => j = k

\* C16: addresses() of a context lists the owners of its selected records, each
\* owner once.
C16_AddressesDistinct ==
    \A c \in Ctxs :
        LET a == Addresses(ctx[c].selected_entries) IN
        /\ {a[k] : k \in 1 .. Len(a)} = {AddressOf(i) : i \in IdsOf(ctx[c].selected_entries)}
        /\ NoDuplicates(a)

\* C17: in Account::send, by the time the transaction builder has been handed
\* the selected records and the outputs (and so while signing and submitting),
\* commit() has been called on the selection.
C17_CommitBeforeBuild ==
    send.pc \in {"built", "signed", "submitted"} => send.committed

\* C12: insert, extend, remove, commit and recover_consumed_utxos make their
\* writes to the index, the available sequence and the reserved map inside one
\* critical section: while a mutation is between two of its writes the guard is
\* held, and no balance computation or selection read has found the set so.
C12_NoPartialUpdateObserved ==
    /\ lock.job.phase = "half" => lock.held
    /\ last.res # "partial"

\* A balance or selection read ran on a whole set, and now a recover is between
\* taking the timed out entries out of consumed and returning them to entries.
C12_Witness ==
    /\ last.op \in {"balance", "select"}
    /\ lock.held /\ lock.job.op = "recover" /\ lock.job.phase = "half"
    /\ DOMAIN lock.job.removed # {}

\* C20: in adjust_transaction_for_fee, with change = total_input_amount -
\* priority_fee - total_output_amount, the output (change, change_address) is
\* appended to the transaction exactly when change > 0 and that output is not
\* dust; otherwise the outputs stay as they were.
C20_ChangeAppendedUnlessDust ==
    [][tx.pc = "call" /\ tx'.pc # "call"
       => LET change == TotalInputAmount(tx) - tx.priority_fee - TotalOutputAmount(tx)
              change_output == ChangeOutput(tx, change)
          IN  tx'.outputs = IF change > 0 /\ ~IsTransactionOutputDust(change_output)
                            THEN Append(tx.outputs, change_output)
                            ELSE tx.outputs]_vars

\* The last output of the transaction is the change output.
ChangeAppended(t) == Len(t.outputs) > 0 /\ t.outputs[Len(t.outputs)].to = "change"

\* C19: when the fee the transaction pays is below minimum_fee + priority_fee
\* by shortfall, the call fails if no change output was appended or change <
\* shortfall; otherwise it succeeds with the change output reduced by shortfall,
\* so that the fee is exactly minimum_fee + priority_fee, or removed when the
\* reduced output is dust. minimum_fee is the one of the transaction with the
\* change output present.
C19_ShortfallTakenFromChange ==
    [][tx.pc = "changed" /\ tx'.pc = "done"
       => LET minimum_fee == CalcMiniumTxRelayFee(tx, tx.minimum_signatures)
              required == minimum_fee + tx.priority_fee
              actual_fee == TotalInputAmount(tx) - TotalOutputAmount(tx)
              shortfall == required - actual_fee
              last_output == Len(tx.outputs)
              change == IF ChangeAppended(tx) THEN tx.outputs[last_output].value ELSE 0
              reduced == ChangeOutput(tx, change - shortfall)
          IN  actual_fee < required
              => IF ~ChangeAppended(tx) \/ change < shortfall
                 THEN tx'.res = "Err"
                 ELSE /\ tx'.res = "Ok"
                      /\ IF IsTransactionOutputDust(reduced)
                         THEN tx'.outputs = SubSeq(tx.outputs, 1, last_output - 1)
                         ELSE /\ tx'.outputs = [tx.outputs EXCEPT ![last_output] = reduced]
                              /\ TotalInputAmount(tx') - TotalOutputAmount(tx') = required]_vars

\* C18: whenever adjust_transaction_for_fee returns success, the inputs of the
\* final transaction exceed its outputs by at least the minimum relay fee of
\* the final transaction plus the priority fee.
C18_FeeSufficientOnSuccess ==
    tx.pc = "done" /\ tx.res = "Ok"
    => TotalInputAmount(tx) - TotalOutputAmount(tx)
           >= CalcMiniumTxRelayFee(tx, tx.minimum_signatures) + tx.priority_fee

C22_OutputsBeyondInputsRejected ==
    [][tx.pc = "call" /\ tx'.pc # "call"
       /\ TotalOutputAmount(tx) > TotalInputAmount(tx) - tx.priority_fee
       => tx'.pc = "done" /\ tx'.res = "Err" /\ tx'.err = "InsufficientFunds"]_vars

\* The smaller of two numbers.
Smaller(a, b) == IF a <= b THEN a ELSE b

BelowDustLimit(output) == output.value < 3 * (8 + 2 + 8 + output.script_len + 148)

\* C24: is_output_dust returns true for every output whose script is shorter
\* than 33 bytes, and for every other output exactly when value * 1000 /
\* (3 * (serialized output size + 148)) < 1000 in integer division.
C24_DustFormula ==
    Answered("dust")
    => LET output == tx.output IN
       tx.out = IF output.script_len < 33 THEN TRUE
                ELSE IF output.value <= LargestScalable
                THEN (output.value * 1000) \div (3 * (8 + 2 + 8 + output.script_len + 148))
                         < 1000
                ELSE BelowDustLimit(output)

\* An output of 599 with a 34-byte script has been found dust, by the quotient
\* 599000 / 600 = 998.
C24_Witness ==
    Answered("dust") /\ tx.output.script_len = ScriptLen /\ tx.output.value = 599 /\ tx.out

\* C25: with the 34-byte pay-to-pubkey script, is_output_dust finds an output of
\* 545 dust and an output of 546 not dust.
C25_DustBoundary546 ==
    Answered("dust") /\ tx.output.script_len = 34
    => /\ tx.output.value = 545 => tx.out
       /\ tx.output.value = 546 => ~tx.out

\* C26: for every value whose product with 1000 does not fit the word, the
\* largest amount included, is_output_dust answers as the dust formula does in
\* unbounded integers.
C26_DustOfLargeValues ==
    Answered("dust") /\ tx.output.script_len >= 33 /\ tx.output.value > LargestScalable
    => tx.out = BelowDustLimit(tx.output)

\* The largest amount has been classified, by the wide quotient.
C26_Witness ==
    Answered("dust") /\ tx.output.script_len = ScriptLen
    /\ tx.output.value = Modulus - 1 /\ ~tx.out

\* C27: calc_minimum_tx_relay_fee(tx, m) is minimum_required_fee of
\* serialized_size(tx) * mass_per_tx_byte + the sum over the outputs of
\* (2 + script_len) * mass_per_script_pub_key_byte + the sum over the inputs of
\* sig_op_count * mass_per_sig_op + max(1, m) * 66 * mass_per_tx_byte * the
\* number of inputs.
C27_MinimumFeeOfMass ==
    Answered("minimum_fee")
    => LET t == tx.t
           m == tx.minimum_signatures
           mass == TransactionSerializedByteSize(t) * Params.mass_per_tx_byte
                   + SumOf([i \in 1 .. Len(t.outputs) |->
                               (2 + t.outputs[i].script_len)
                                   * Params.mass_per_script_pub_key_byte])
                   + SumOf([i \in 1 .. Len(t.inputs) |->
                               t.inputs[i].sig_op_count * Params.mass_per_sig_op])
                   + Larger(1, m) * 66 * Params.mass_per_tx_byte * Len(t.inputs)
       IN  tx.out = MinimumRequiredTransactionRelayFee(mass)

\* The fee of a transaction of two inputs has been computed for
\* minimum_signatures 0, with the signature mass of one signature per input.
C27_Witness ==
    Answered("minimum_fee") /\ tx.minimum_signatures = 0 /\ Len(tx.t.inputs) = 2
    /\ Len(tx.t.outputs) = 1 /\ tx.out > 2 * 66

\* C28: transaction_serialized_byte_size(tx) is 2 + 8 + 8 + 8 +
\* SUBNETWORK_ID_SIZE + 8 + HASH_SIZE + 8 + the payload length + the sum over
\* the inputs of 32 + 4 + 8 + signature script length + 8 + the sum over the
\* outputs of 8 + 2 + 8 + script length; for no inputs, no outputs and an empty
\* payload it is blank_transaction_serialized_byte_size().
C28_SerializedSize ==
    Answered("size")
    => LET t == tx.t IN
       /\ tx.out = 2 + 8 + 8 + 8 + SUBNETWORK_ID_SIZE + 8 + HASH_SIZE + 8 + t.payload_len
                   + SumOf([i \in 1 .. Len(t.inputs) |->
                               32 + 4 + 8 + t.inputs[i].signature_script_len + 8])
                   + SumOf([i \in 1 .. Len(t.outputs) |->
                               8 + 2 + 8 + t.outputs[i].script_len])
       /\ Len(t.inputs) = 0 /\ Len(t.outputs) = 0 /\ t.payload_len = 0
          => tx.out = BlankTransactionSerializedByteSize

\* The size of a transaction with signed inputs, an output and a payload has
\* been computed.
C28_Witness ==
    Answered("size") /\ Len(tx.t.inputs) = 2 /\ tx.t.inputs[1].signature_script_len > 0
    /\ Len(tx.t.outputs) = 1 /\ tx.t.payload_len > 0
    /\ tx.out > BlankTransactionSerializedByteSize

\* C29: a Bip32 account's Storable written to account storage and loaded back
\* with Storable::try_load comes back with the same account_index, ecdsa flag
\* and xpub keys, and bytes whose header carries another magic or version are
\* rejected.
C29_StorableRoundTrip ==
    store.pc = "loaded"
    => /\ store.via \in {"to_storage", "guard"}
          => store.out.res = "Ok" /\ store.out.storable = store.storable
       /\ store.via = "foreign" => store.out.res = "Err"

\* C30: after any sequence of insert, extend, remove, commit and
\* recover_consumed_utxos calls, the available sequence is sorted in ascending
\* order of amount.
C30_EntriesSortedByAmount ==
    \A i \in 1 .. Len(entries) - 1 : entries[i].amount <= entries[i + 1].amount

\* An entry came back from the consumed map into an available sequence that
\* holds entries of different amounts.
C30_Witness ==
    /\ last.op = "recover" /\ last.res = "Ok" /\ last.n >= 1
    /\ Len(entries) >= 2
    /\ entries[1].amount < entries[Len(entries)].amount

\* C31: a record removed via remove never appears in the available sequence (or
\* in balance()) again unless insert or extend puts it back: an id that is
\* neither indexed nor available can become available only by insert or extend,
\* not by a later commit of a context that had selected it followed by
\* recover_consumed_utxos.
C31_RemovedStaysRemoved ==
    [][\A i \in Ids :
          i \notin DOMAIN map /\ i \notin IdsOf(entries) /\ i \in IdsOf(entries')
          => last'.op \in {"insert", "extend"}]_vars

\* C32: commit leaves every record that the committing context did not select
\* where it was: an available record that was not selected stays available (and
\* in balance()), and a record reserved by another context stays reserved with
\* its reservation time.
C32_CommitLeavesUnselected ==
    [][\A c \in Solo :
          Commits(c)
          => \A i \in Ids \ IdsOf(ctx[c].selected_entries) :
                /\ Count(entries', i) = Count(entries, i)
                /\ i \in DOMAIN consumed
                   => i \in DOMAIN consumed' /\ consumed'[i] = consumed[i]]_vars

\* C33: after any sequence of insert, extend, remove, commit and
\* recover_consumed_utxos calls, no record id occurs more than once in the
\* available sequence.
C33_NoIdTwiceAvailable ==
    \A i \in Ids : Count(entries, i) <= 1

\* C34: within one selection context no record id appears twice in
\* selected_entries(), even when other activities insert, extend, remove or
\* recover records between two reads of the context's cursor.
C34_SelectedIdsDistinct ==
    \A c \in Ctxs : \A i \in Ids : Count(ctx[c].selected_entries, i) <= 1

\* C35: after any sequence of select calls on one context, successful or
\* failed, selected_amount() equals the sum of the amounts of
\* selected_entries(), the total input amount create_transaction computes.
C35_SelectedAmountIsSum ==
    \A c \in Ctxs :
        ctx[c].st = "idle" => ctx[c].selected_amount = SumAmounts(ctx[c].selected_entries)

\* C36: when Account::send returns, with success or with an error, every record
\* spent as an input of a transaction that submit_transaction accepted is
\* reserved and no longer selectable, also when a later transaction of the same
\* send failed to sign or submit. The first accepted transaction spends the
\* first selected record; a record that a spend notification has taken out of
\* the index meanwhile is left aside.
C36_AcceptedInputsReserved ==
    [][send.pc \in {"submitted", "failed"} /\ send'.pc = "idle"
       /\ send.accepted >= 1 /\ Len(ctx[SendCtx].selected_entries) >= 1
       => LET i == ctx[SendCtx].selected_entries[1].id IN
          i \in DOMAIN map'
          => i \in DOMAIN consumed' /\ i \notin IdsOf(entries')]_vars

\* C37: if adjust_transaction_for_fee returns an error, the transaction's
\* output list is the same as before the call: no change output is left
\* appended to it.
C37_ErrorLeavesOutputs ==
    tx.pc = "done" /\ tx.res = "Err" => ~ChangeAppended(tx)

\* C38: adjust_transaction_for_fee called directly with priority_fee greater
\* than total_input_amount returns an error; the subtraction
\* total_input_amount - priority_fee neither wraps around nor aborts.
C38_PriorityFeeBeyondInputsIsError ==
    [][tx.pc = "call" /\ tx'.pc # "call" /\ tx.priority_fee > TotalInputAmount(tx)
       => tx'.pc = "done" /\ tx'.res = "Err"]_vars

\* C39: when scan_utxos completes, the account's cached balance equals the
\* balance of its UtxoSet (the sum of the available records), also when UTXO
\* add or remove notifications were handled while the scan was running.
C39_CachedBalanceIsSetBalance ==
    [][scan.pc = "scanning" /\ scan'.pc = "complete"
       => scan'.cached = Balance(entries')]_vars

\* C40: scan_address_manager terminates for every window_size and for both
\* scan extents: a scan that has started completes.
C40_ScanTerminates ==
    scan.pc = "scanning" ~> scan.pc = "complete"

====
